---- MODULE Spec2Model ----
(***************************************************************************)
(* A model of the tic-tac-toe AI of the `tactic` crate: the game board,    *)
(* the outcome classifier, the recursive move evaluator                    *)
(* (PossibleMove::new / calculate_win_score) and the AI policy             *)
(* (AiPlayer::new / set_difficulty / mistake_chance / do_turn), the game   *)
(* loop of the UI with its Human and AI turns, the loop of main around it, *)
(* and the options of the setup menu.                                      *)
(*                                                                         *)
(* Numbers.  Win scores are f64 in the source.  Every score the evaluator  *)
(* can produce on a 3x3 board is a rational whose denominator divides      *)
(* 2^8 * 8!, so a score s is represented by the integer s * One with       *)
(* One == 2^8 * 8!; the division by the sub-move count and the halving     *)
(* are then exact integer divisions.  Difficulties, mistake chances and    *)
(* the random draw are represented in hundredths (1.0 is 100), which is    *)
(* the resolution the setup menu uses; NaN is kept as a value of its own.  *)
(***************************************************************************)
EXTENDS Integers, Sequences, FiniteSets, TLC

(***************************************************************************)
(* Bounds of the model.                                                    *)
(***************************************************************************)
\* the largest number of Empty cells of the boards that are drawn without
\* any further restriction (the scenario boards below may have more)
MaxEmpty == 3

(***************************************************************************)
(* gameboard.rs                                                            *)
(***************************************************************************)
BoardSpace == {"Empty", "X", "O"}

TopLeft == 1
TopMiddle == 2
TopRight == 3
MiddleLeft == 4
MiddleMiddle == 5
MiddleRight == 6
BottomLeft == 7
BottomMiddle == 8
BottomRight == 9

\* BoardSpaceLocation::all(): the variants in enumeration order
all == <<TopLeft, TopMiddle, TopRight,
         MiddleLeft, MiddleMiddle, MiddleRight,
         BottomLeft, BottomMiddle, BottomRight>>

BoardSpaceLocation == {all[i] : i \in 1..Len(all)}

\* GameBoard::new(): every space Empty
GameBoard_new == [l \in BoardSpaceLocation |-> "Empty"]

\* GameBoard::space
space(board, location) == board[location]

\* *board.space_mut(location) = value, on a board owned by the caller
space_mut(board, location, value) == [board EXCEPT ![location] = value]

(***************************************************************************)
(* lib.rs: ActivePlayer                                                    *)
(***************************************************************************)
ActivePlayer == {"PlayerX", "PlayerO"}

\* opposite that maps both sides to PlayerX
opposite_stuck(p) == "PlayerX"

opposite(p) == IF p = "PlayerO" THEN "PlayerX" ELSE "PlayerO"

\* ActivePlayer::switch: the value *self holds afterwards
\* a switch() that leaves the side as it is
switch_stays(self) == self

switch(self) == opposite(self)

get_board_space(p) == IF p = "PlayerX" THEN "X" ELSE "O"

(***************************************************************************)
(* game_outcome.rs                                                         *)
(***************************************************************************)
TOP_ROW == <<TopLeft, TopMiddle, TopRight>>
MIDDLE_ROW == <<MiddleLeft, MiddleMiddle, MiddleRight>>
BOTTOM_ROW == <<BottomLeft, BottomMiddle, BottomRight>>
LEFT_COLUMN == <<TopLeft, MiddleLeft, BottomLeft>>
MIDDLE_COLUMN == <<TopMiddle, MiddleMiddle, BottomMiddle>>
RIGHT_COLUMN == <<TopRight, MiddleRight, BottomRight>>
TOP_LEFT_TO_BOTTOM_RIGHT == <<TopLeft, MiddleMiddle, BottomRight>>
BOTTOM_LEFT_TO_TOP_RIGHT == <<BottomLeft, MiddleMiddle, TopRight>>

\* WinPosition::all() with MiddleRow ahead of TopRow
WinPosition_all_reordered == <<"MiddleRow", "TopRow", "BottomRow",
                               "LeftColumn", "MiddleColumn", "RightColumn",
                               "TopLeftToBottomRight", "BottomLeftToTopRight">>

\* WinPosition::all(): the variants in priority order
WinPosition_all == <<"TopRow", "MiddleRow", "BottomRow",
                     "LeftColumn", "MiddleColumn", "RightColumn",
                     "TopLeftToBottomRight", "BottomLeftToTopRight">>

\* WinPosition::as_board_spaces: the three spaces of each win position
win_position_constants ==
    [TopRow |-> TOP_ROW,
     MiddleRow |-> MIDDLE_ROW,
     BottomRow |-> BOTTOM_ROW,
     LeftColumn |-> LEFT_COLUMN,
     MiddleColumn |-> MIDDLE_COLUMN,
     RightColumn |-> RIGHT_COLUMN,
     TopLeftToBottomRight |-> TOP_LEFT_TO_BOTTOM_RIGHT,
     BottomLeftToTopRight |-> BOTTOM_LEFT_TO_TOP_RIGHT]

as_board_spaces(win_position) == win_position_constants[win_position]

\* no_winner_outcome that never reports a Draw
no_winner_outcome_never_draw(board) ==
    [kind |-> "Incomplete", win_position |-> "None"]

\* the second loop of analyze_game: Incomplete if some space is Empty
no_winner_outcome(board) ==
    IF \E l \in BoardSpaceLocation : space(board, l) = "Empty"
    THEN [kind |-> "Incomplete", win_position |-> "None"]
    ELSE [kind |-> "Draw", win_position |-> "None"]

\* the first loop of analyze_game, from the i-th win position on
RECURSIVE analyze_from(_, _)
analyze_from(board, i) ==
    IF i > Len(WinPosition_all) THEN no_winner_outcome(board)
    ELSE LET win_position == WinPosition_all[i]
             spaces == as_board_spaces(win_position)
             possible_winner == space(board, spaces[1])
             is_winner == /\ space(board, spaces[2]) = possible_winner
                          /\ space(board, spaces[3]) = possible_winner
         IN IF is_winner /\ possible_winner = "X"
            THEN [kind |-> "PlayerX", win_position |-> win_position]
            ELSE IF is_winner /\ possible_winner = "O"
            THEN [kind |-> "PlayerO", win_position |-> win_position]
            ELSE analyze_from(board, i + 1)

\* analyze_game whose first loop misses the first win position
analyze_game_skipping(board) == analyze_from(board, 2)

analyze_game(board) == analyze_from(board, 1)

game_outcome(board) == analyze_game(board)

game_finished(outcome) == outcome.kind # "Incomplete"

game_won(outcome) == outcome.kind \notin {"Draw", "Incomplete"}

(***************************************************************************)
(* ai.rs: the move evaluator                                               *)
(***************************************************************************)
\* the fixed-point image of the score 1.0
One == 256 * 40320

\* sub_moves.iter().map(|m| m.win_score).sum(), from the i-th move on
RECURSIVE total_wins_from(_, _)
total_wins_from(sub_moves, i) ==
    IF i > Len(sub_moves) THEN 0
    ELSE sub_moves[i].win_score + total_wins_from(sub_moves, i + 1)

\* calculate_win_score with the two arms of the PlayerO case exchanged
calculate_win_score_swapped(sub_moves, board, winning_player) ==
    LET sub_move_count == Len(sub_moves)
    IN IF sub_move_count > 0
       THEN (total_wins_from(sub_moves, 1) \div sub_move_count) \div 2
       ELSE LET outcome == game_outcome(board)
            IN CASE outcome.kind = "PlayerX" ->
                      IF winning_player = "PlayerX" THEN One ELSE -One
                 [] outcome.kind = "PlayerO" ->
                      IF winning_player = "PlayerX" THEN One ELSE -One
                 [] OTHER -> 0

\* calculate_win_score without the halving
calculate_win_score_unhalved(sub_moves, board, winning_player) ==
    LET sub_move_count == Len(sub_moves)
    IN IF sub_move_count > 0
       THEN total_wins_from(sub_moves, 1) \div sub_move_count
       ELSE LET outcome == game_outcome(board)
            IN CASE outcome.kind = "PlayerX" ->
                      IF winning_player = "PlayerX" THEN One ELSE -One
                 [] outcome.kind = "PlayerO" ->
                      IF winning_player = "PlayerX" THEN -One ELSE One
                 [] OTHER -> 0

\* calculate_win_score that halves the total instead of the average
calculate_win_score_undivided(sub_moves, board, winning_player) ==
    LET sub_move_count == Len(sub_moves)
    IN IF sub_move_count > 0
       THEN total_wins_from(sub_moves, 1) \div 2
       ELSE LET outcome == game_outcome(board)
            IN CASE outcome.kind = "PlayerX" ->
                      IF winning_player = "PlayerX" THEN One ELSE -One
                 [] outcome.kind = "PlayerO" ->
                      IF winning_player = "PlayerX" THEN -One ELSE One
                 [] OTHER -> 0

\* calculate_win_score that scores a lost game 0.0
calculate_win_score_no_loss(sub_moves, board, winning_player) ==
    LET sub_move_count == Len(sub_moves)
    IN IF sub_move_count > 0
       THEN (total_wins_from(sub_moves, 1) \div sub_move_count) \div 2
       ELSE LET outcome == game_outcome(board)
            IN CASE outcome.kind = "PlayerX" ->
                      IF winning_player = "PlayerX" THEN One ELSE 0
                 [] outcome.kind = "PlayerO" ->
                      IF winning_player = "PlayerX" THEN 0 ELSE One
                 [] OTHER -> 0

calculate_win_score(sub_moves, board, winning_player) ==
    LET sub_move_count == Len(sub_moves)
    IN IF sub_move_count > 0
       THEN (total_wins_from(sub_moves, 1) \div sub_move_count) \div 2
       ELSE LET outcome == game_outcome(board)
            IN CASE outcome.kind = "PlayerX" ->
                      IF winning_player = "PlayerX" THEN One ELSE -One
                 [] outcome.kind = "PlayerO" ->
                      IF winning_player = "PlayerX" THEN -One ELSE One
                 [] OTHER -> 0

RECURSIVE PossibleMove_eval(_, _, _, _)
RECURSIVE collect_moves(_, _, _, _)

\* PossibleMove::new: the move, as the struct keeps it
PossibleMove_new(board, new_location, active_player, winning_player) ==
    LET e == PossibleMove_eval(board, new_location, active_player, winning_player)
    IN [new_location |-> e.new_location, win_score |-> e.win_score]

\* the loop `for location in BoardSpaceLocation::all()` that pushes one
\* PossibleMove for every Empty space of the board, in the order of all(),
\* from the i-th location on
collect_moves(board, active_player, winning_player, i) ==
    LET locations == SelectSeq(SubSeq(all, i, Len(all)),
                               LAMBDA l : space(board, l) = "Empty")
    IN [k \in 1..Len(locations) |->
            PossibleMove_new(board, locations[k], active_player, winning_player)]

\* sub_moves_of whose loop misses the first location
sub_moves_of_skipping(new_board, active_player, winning_player) ==
    IF ~game_finished(game_outcome(new_board))
    THEN collect_moves(new_board, opposite(active_player), winning_player, 2)
    ELSE <<>>

\* sub_moves_of that keeps the acting side for the sub-moves
sub_moves_of_same_side(new_board, active_player, winning_player) ==
    IF ~game_finished(game_outcome(new_board))
    THEN collect_moves(new_board, active_player, winning_player, 1)
    ELSE <<>>

\* the sub_moves of a move whose resulting board is new_board
sub_moves_of(new_board, active_player, winning_player) ==
    IF ~game_finished(game_outcome(new_board))
    THEN collect_moves(new_board, opposite(active_player), winning_player, 1)
    ELSE <<>>

\* the body of PossibleMove::new, with its locals new_board and sub_moves
PossibleMove_eval(board, new_location, active_player, winning_player) ==
    LET new_board == space_mut(board, new_location, get_board_space(active_player))
        sub_moves == sub_moves_of(new_board, active_player, winning_player)
    IN [new_location |-> new_location,
        win_score |-> calculate_win_score(sub_moves, new_board, winning_player),
        new_board |-> new_board,
        sub_moves |-> sub_moves]

\* PossibleMove_call that leaves the space unmarked
PossibleMove_call_unmarked(board, new_location, active_player, winning_player) ==
    [board |-> board, new_location |-> new_location,
     active_player |-> active_player, winning_player |-> winning_player,
     new_board |-> board,
     recursing |-> ~game_finished(game_outcome(board))]

\* one activation of PossibleMove::new: its arguments, its local new_board
\* and whether it enters the branch that generates sub-moves
PossibleMove_call(board, new_location, active_player, winning_player) ==
    LET new_board == space_mut(board, new_location, get_board_space(active_player))
    IN [board |-> board, new_location |-> new_location,
        active_player |-> active_player, winning_player |-> winning_player,
        new_board |-> new_board,
        recursing |-> ~game_finished(game_outcome(new_board))]

\* the locations for which the activation calls PossibleMove::new again
recursive_calls(call) ==
    IF call.recursing
    THEN {all[i] : i \in {j \in 1..Len(all) : space(call.new_board, all[j]) = "Empty"}}
    ELSE {}

(***************************************************************************)
(* ai.rs: AiPlayer                                                         *)
(***************************************************************************)
\* f64 values in hundredths; NaN is unordered
F(v) == [nan |-> FALSE, v |-> v]
NaN == [nan |-> TRUE, v |-> 0]
f_lt(a, b) == ~a.nan /\ ~b.nan /\ a.v < b.v
f_gt(a, b) == ~a.nan /\ ~b.nan /\ a.v > b.v
f_sub(a, b) == IF a.nan \/ b.nan THEN NaN ELSE F(a.v - b.v)
\* f64::min and f64::max return the other operand when one is NaN
f_min(a, b) == IF a.nan THEN b ELSE IF b.nan THEN a ELSE IF a.v < b.v THEN a ELSE b
f_max(a, b) == IF a.nan THEN b ELSE IF b.nan THEN a ELSE IF a.v > b.v THEN a ELSE b

\* impl Default for AiPlayer: difficulty 1.0
AiPlayer_default == F(100)

\* the condition under which set_difficulty panics
set_difficulty_panics(difficulty) ==
    f_lt(difficulty, F(0)) \/ f_gt(difficulty, F(100)) \/ difficulty.nan

\* mistake_chance that clamps the difficulty itself
mistake_chance_unsubtracted(self_difficulty) ==
    f_max(f_min(self_difficulty, F(100)), F(0))

mistake_chance(self_difficulty) ==
    f_max(f_min(f_sub(F(100), self_difficulty), F(100)), F(0))

\* move_index_of that rounds to the nearest index
move_index_of_rounded(self_difficulty, len) ==
    IF self_difficulty.nan \/ self_difficulty.v < 0 THEN 0
    ELSE (self_difficulty.v * len + 50) \div 100

\* move_index_of that rounds up
move_index_of_ceiling(self_difficulty, len) ==
    IF self_difficulty.nan \/ self_difficulty.v < 0 THEN 0
    ELSE (self_difficulty.v * len + 99) \div 100

\* (self.difficulty * (len as f64)) as usize: the cast truncates, saturates
\* at 0 and maps NaN to 0
move_index_of(self_difficulty, len) ==
    IF self_difficulty.nan \/ self_difficulty.v < 0 THEN 0
    ELSE (self_difficulty.v * len) \div 100

RECURSIVE insert_sorted(_, _)
RECURSIVE insert_sorted_before_equal(_, _)

\* insert_sorted that places x before the moves of equal score
insert_sorted_before_equal(sorted, x) ==
    IF Len(sorted) = 0 THEN <<x>>
    ELSE IF sorted[Len(sorted)].win_score < x.win_score
    THEN Append(sorted, x)
    ELSE Append(insert_sorted_before_equal(SubSeq(sorted, 1, Len(sorted) - 1), x),
                sorted[Len(sorted)])

\* the position at which a stable ascending sort places x among the sorted
\* moves: after every move whose score is not greater
insert_sorted(sorted, x) ==
    IF Len(sorted) = 0 THEN <<x>>
    ELSE IF sorted[Len(sorted)].win_score <= x.win_score
    THEN Append(sorted, x)
    ELSE Append(insert_sorted(SubSeq(sorted, 1, Len(sorted) - 1), x),
                sorted[Len(sorted)])

\* possible_moves.sort_by(partial_cmp of the win scores): stable, ascending
RECURSIVE sort_by(_)
sort_by(moves) ==
    IF Len(moves) = 0 THEN <<>>
    ELSE insert_sorted(sort_by(SubSeq(moves, 1, Len(moves) - 1)), moves[Len(moves)])

NoMove == [new_location |-> 0, win_score |-> 0]

do_turn_err(error) ==
    [kind |-> "Err", error |-> error, new_board |-> <<>>,
     possible_moves |-> <<>>, do_mistake |-> FALSE, next_move |-> NoMove]

\* a do_turn that finds no candidate
generate_possible_moves_none(board, player) == <<>>

\* do_turn up to the sort: one PossibleMove per Empty space, perspective and
\* acting side both `player`, sorted by win score (lowest to highest)
generate_possible_moves(board, player) ==
    sort_by(collect_moves(board, player, player, 1))

\* select_and_play that plays the first (lowest) move when it makes no mistake
select_and_play_first(self_difficulty, board, player, possible_moves, r) ==
    IF Len(possible_moves) = 0 THEN do_turn_err("NoMovesFound")
    ELSE LET do_mistake == f_gt(mistake_chance(self_difficulty), r)
             move_index == move_index_of(self_difficulty, Len(possible_moves))
             next_move ==
                 IF do_mistake
                 THEN IF move_index < Len(possible_moves)
                      THEN possible_moves[move_index + 1]
                      ELSE possible_moves[1]
                 ELSE possible_moves[1]
             new_board == space_mut(board, next_move.new_location,
                                    get_board_space(player))
         IN [kind |-> "Ok", error |-> "None", new_board |-> new_board,
             possible_moves |-> possible_moves,
             do_mistake |-> do_mistake, next_move |-> next_move]

\* select_and_play that makes a mistake when the chance is >= the draw
select_and_play_ge(self_difficulty, board, player, possible_moves, r) ==
    IF Len(possible_moves) = 0 THEN do_turn_err("NoMovesFound")
    ELSE LET do_mistake == ~f_lt(mistake_chance(self_difficulty), r)
             move_index == move_index_of(self_difficulty, Len(possible_moves))
             next_move ==
                 IF do_mistake
                 THEN IF move_index < Len(possible_moves)
                      THEN possible_moves[move_index + 1]
                      ELSE possible_moves[1]
                 ELSE possible_moves[Len(possible_moves)]
             new_board == space_mut(board, next_move.new_location,
                                    get_board_space(player))
         IN [kind |-> "Ok", error |-> "None", new_board |-> new_board,
             possible_moves |-> possible_moves,
             do_mistake |-> do_mistake, next_move |-> next_move]

\* select_and_play that writes the mark of the other side
select_and_play_other_mark(self_difficulty, board, player, possible_moves, r) ==
    IF Len(possible_moves) = 0 THEN do_turn_err("NoMovesFound")
    ELSE LET do_mistake == f_gt(mistake_chance(self_difficulty), r)
             move_index == move_index_of(self_difficulty, Len(possible_moves))
             next_move ==
                 IF do_mistake
                 THEN IF move_index < Len(possible_moves)
                      THEN possible_moves[move_index + 1]
                      ELSE possible_moves[1]
                 ELSE possible_moves[Len(possible_moves)]
             new_board == space_mut(board, next_move.new_location,
                                    get_board_space(opposite(player)))
         IN [kind |-> "Ok", error |-> "None", new_board |-> new_board,
             possible_moves |-> possible_moves,
             do_mistake |-> do_mistake, next_move |-> next_move]

\* the rest of do_turn, given the sorted moves and the value r that
\* rng.gen_range(0.0..1.0) returns
select_and_play(self_difficulty, board, player, possible_moves, r) ==
    IF Len(possible_moves) = 0 THEN do_turn_err("NoMovesFound")
    ELSE LET do_mistake == f_gt(mistake_chance(self_difficulty), r)
             move_index == move_index_of(self_difficulty, Len(possible_moves))
             next_move ==
                 IF do_mistake
                 THEN IF move_index < Len(possible_moves)
                      THEN possible_moves[move_index + 1]
                      ELSE possible_moves[1]
                 ELSE possible_moves[Len(possible_moves)]
             new_board == space_mut(board, next_move.new_location,
                                    get_board_space(player))
         IN [kind |-> "Ok", error |-> "None", new_board |-> new_board,
             possible_moves |-> possible_moves,
             do_mistake |-> do_mistake, next_move |-> next_move]

\* do_turn without the early return on a finished game
do_turn_unchecked(self_difficulty, board, player, possible_moves, r) ==
    select_and_play(self_difficulty, board, player, possible_moves, r)

\* AiPlayer::do_turn; possible_moves is generate_possible_moves(board, player)
do_turn(self_difficulty, board, player, possible_moves, r) ==
    IF game_finished(game_outcome(board)) THEN do_turn_err("GameFinished")
    ELSE select_and_play(self_difficulty, board, player, possible_moves, r)

(***************************************************************************)
(* lib.rs: PlayerType; gameboard.rs: coordinates                           *)
(***************************************************************************)
Human == [kind |-> "Human"]

\* PlayerType::AI(ai_player), the AiPlayer given by its difficulty
AI(ai_player) == [kind |-> "AI", difficulty |-> ai_player]

\* BoardSpaceLocation::as_coordinates: (x, y)
as_coordinates(location) ==
    CASE location = TopLeft -> <<0, 0>>
      [] location = TopMiddle -> <<1, 0>>
      [] location = TopRight -> <<2, 0>>
      [] location = MiddleLeft -> <<0, 1>>
      [] location = MiddleMiddle -> <<1, 1>>
      [] location = MiddleRight -> <<2, 1>>
      [] location = BottomLeft -> <<0, 2>>
      [] location = BottomMiddle -> <<1, 2>>
      [] location = BottomRight -> <<2, 2>>

\* BoardSpaceLocation::from_coordinates: the first variant with these
\* coordinates (x and y are at most 2 wherever the model calls it)
from_coordinates(x, y) ==
    all[CHOOSE i \in 1..Len(all) :
            /\ as_coordinates(all[i]) = <<x, y>>
            /\ \A j \in 1..(i - 1) : as_coordinates(all[j]) # <<x, y>>]

\* the key events handle_next_event distinguishes; Other stands for every
\* event it ignores
Keys == {"Right", "Left", "Down", "Up", "Enter", "x", "o", "q", "CtrlC", "Other"}

(***************************************************************************)
(* ui/setup_menu/menu_options.rs: the options of the setup menu.  The menu *)
(* is a record of the selected values, one option of each type:            *)
(*   game_mode       GameModeMenuOption.selected_game_mode                 *)
(*   autoquit_value  AutoquitValueMenuOption.selected_value, a u32 kept as *)
(*                   two 16-bit limbs [hi, lo] (value = hi * 2^16 + lo)    *)
(*   autoquit_mode   AutoquitModeMenuOption.selected_mode                  *)
(*   difficulty      DifficultyMenuOption.selected_difficulty, an i8       *)
(*   player_type     PlayerTypeMenuOption.selected_player_type             *)
(* next_value and prev_value return the Result and the option after the    *)
(* call.                                                                   *)
(***************************************************************************)
Limb == 65536

U32(hi, lo) == [hi |-> hi, lo |-> lo]

u32_MAX == U32(Limb - 1, Limb - 1)

\* a > b on u32
u32_gt(a, b) == a.hi > b.hi \/ (a.hi = b.hi /\ a.lo > b.lo)

\* u32::checked_add(a, step) for a step below 2^16: None on overflow
checked_add(a, step) ==
    LET lo == a.lo + step
        hi == a.hi + (lo \div Limb)
    IN IF hi >= Limb THEN [some |-> FALSE]
       ELSE [some |-> TRUE, value |-> U32(hi, lo % Limb)]

\* u32::checked_sub(a, step) for a step below 2^16: None below zero
checked_sub(a, step) ==
    IF a.lo >= step THEN [some |-> TRUE, value |-> U32(a.hi, a.lo - step)]
    ELSE IF a.hi = 0 THEN [some |-> FALSE]
    ELSE [some |-> TRUE, value |-> U32(a.hi - 1, a.lo + Limb - step)]

MenuOptions == {"game_mode", "autoquit_value", "autoquit_mode", "difficulty",
                "player_type"}

\* AutoquitValueMenuOption::AUTOQUIT_VALUE_STEP
AUTOQUIT_VALUE_STEP == 1

\* DifficultyMenuOption::DIFFICULTY_STEP
DIFFICULTY_STEP == 5

\* the new() of every option; the player type option is that of player X,
\* whose default type is Human
SetupMenu_new ==
    [game_mode |-> "Classic",
     autoquit_value |-> U32(0, 1),
     autoquit_mode |-> "Unlimited",
     difficulty |-> 85,
     player_type |-> Human]

\* MenuOption::at_maximum of the option
at_maximum(option, self) ==
    CASE option = "game_mode" -> FALSE
      [] option = "autoquit_value" -> self.autoquit_value = u32_MAX
      [] option = "autoquit_mode" -> self.autoquit_mode = "ScoreNumberLimit"
      [] option = "difficulty" -> self.difficulty = 100
      [] option = "player_type" -> FALSE

\* MenuOption::at_minimum of the option
at_minimum(option, self) ==
    CASE option = "game_mode" -> FALSE
      [] option = "autoquit_value" -> self.autoquit_value = U32(0, 1)
      [] option = "autoquit_mode" -> self.autoquit_mode = "Unlimited"
      [] option = "difficulty" -> self.difficulty = 0
      [] option = "player_type" -> FALSE

MenuOk(self) == [result |-> "Ok", menu |-> self]

MenuErr(self) == [result |-> "Err", menu |-> self]

\* GameModeMenuOption::next_value; prev_value calls it
GameModeMenuOption_next_value(self) ==
    MenuOk([self EXCEPT !.game_mode =
                IF @ = "Classic" THEN "Reverse" ELSE "Classic"])

AutoquitValueMenuOption_next_value(self) ==
    LET added == checked_add(self.autoquit_value, AUTOQUIT_VALUE_STEP)
    IN IF added.some
       THEN MenuOk([self EXCEPT !.autoquit_value = added.value])
       ELSE MenuErr(self)

\* a prev_value that accepts every difference checked_sub returns
AutoquitValueMenuOption_prev_value_unchecked(self) ==
    LET new_value == checked_sub(self.autoquit_value, AUTOQUIT_VALUE_STEP)
    IN IF new_value.some
       THEN MenuOk([self EXCEPT !.autoquit_value = new_value.value])
       ELSE MenuErr(self)

AutoquitValueMenuOption_prev_value(self) ==
    LET new_value == checked_sub(self.autoquit_value, AUTOQUIT_VALUE_STEP)
    IN IF new_value.some
       THEN IF u32_gt(new_value.value, U32(0, 0))
            THEN MenuOk([self EXCEPT !.autoquit_value = new_value.value])
            ELSE MenuErr(self)
       ELSE MenuErr(self)

AutoquitModeMenuOption_next_value(self) ==
    CASE self.autoquit_mode = "Unlimited" ->
            MenuOk([self EXCEPT !.autoquit_mode = "GameNumberLimit"])
      [] self.autoquit_mode = "GameNumberLimit" ->
            MenuOk([self EXCEPT !.autoquit_mode = "NonDrawNumberLimit"])
      [] self.autoquit_mode = "NonDrawNumberLimit" ->
            MenuOk([self EXCEPT !.autoquit_mode = "ScoreNumberLimit"])
      [] self.autoquit_mode = "ScoreNumberLimit" -> MenuErr(self)

AutoquitModeMenuOption_prev_value(self) ==
    CASE self.autoquit_mode = "Unlimited" -> MenuErr(self)
      [] self.autoquit_mode = "GameNumberLimit" ->
            MenuOk([self EXCEPT !.autoquit_mode = "Unlimited"])
      [] self.autoquit_mode = "NonDrawNumberLimit" ->
            MenuOk([self EXCEPT !.autoquit_mode = "GameNumberLimit"])
      [] self.autoquit_mode = "ScoreNumberLimit" ->
            MenuOk([self EXCEPT !.autoquit_mode = "NonDrawNumberLimit"])

\* the sums stay within i8: selected_difficulty is between 0 and 100
DifficultyMenuOption_next_value(self) ==
    LET new_value == self.difficulty + DIFFICULTY_STEP
    IN IF new_value > 100 THEN MenuErr(self)
       ELSE MenuOk([self EXCEPT !.difficulty = new_value])

DifficultyMenuOption_prev_value(self) ==
    LET new_value == self.difficulty - DIFFICULTY_STEP
    IN IF new_value < 0 THEN MenuErr(self)
       ELSE MenuOk([self EXCEPT !.difficulty = new_value])

\* PlayerTypeMenuOption::next_value; prev_value calls it
PlayerTypeMenuOption_next_value(self) ==
    MenuOk([self EXCEPT !.player_type =
                IF @ = Human THEN AI(AiPlayer_default) ELSE Human])

\* MenuOption::next_value of the option
next_value(option, self) ==
    CASE option = "game_mode" -> GameModeMenuOption_next_value(self)
      [] option = "autoquit_value" -> AutoquitValueMenuOption_next_value(self)
      [] option = "autoquit_mode" -> AutoquitModeMenuOption_next_value(self)
      [] option = "difficulty" -> DifficultyMenuOption_next_value(self)
      [] option = "player_type" -> PlayerTypeMenuOption_next_value(self)

\* MenuOption::prev_value of the option
prev_value(option, self) ==
    CASE option = "game_mode" -> GameModeMenuOption_next_value(self)
      [] option = "autoquit_value" -> AutoquitValueMenuOption_prev_value(self)
      [] option = "autoquit_mode" -> AutoquitModeMenuOption_prev_value(self)
      [] option = "difficulty" -> DifficultyMenuOption_prev_value(self)
      [] option = "player_type" -> PlayerTypeMenuOption_next_value(self)

\* the argument DifficultyMenuOption::value hands to AiPlayer::new:
\* selected_difficulty as f64 / 100.0, in hundredths
DifficultyMenuOption_value(self) == F(self.difficulty)

(***************************************************************************)
(* The inputs: boards, sides, difficulties and random draws.               *)
(***************************************************************************)
Boards == [BoardSpaceLocation -> BoardSpace]

Count(board, value) == Cardinality({l \in BoardSpaceLocation : board[l] = value})

EmptyCount(board) == Count(board, "Empty")

Range(seq) == {seq[i] : i \in 1..Len(seq)}

\* the marks of a board that alternating play produces when p is to move
AlternatingPlay(board, p) ==
    Count(board, get_board_space(opposite(p))) - Count(board, get_board_space(p))
        \in {0, 1}

\* the marks of a board on which neither side is more than one move ahead
Balanced(board) == Count(board, "X") - Count(board, "O") \in {-1, 0, 1}

\* every balanced board with at most MaxEmpty Empty spaces, for either side
SmallCalls ==
    {c \in Boards \X ActivePlayer :
        EmptyCount(c[1]) <= MaxEmpty /\ Balanced(c[1])}

\* side p holds two of the three TopRow spaces, everything else is Empty,
\* and p is to move
TopRowCalls ==
    {<<[l \in BoardSpaceLocation |->
          IF l \in Range(TOP_ROW) \ {e} THEN get_board_space(p) ELSE "Empty"], p>> :
        e \in Range(TOP_ROW), p \in ActivePlayer}

\* the other side holds exactly two spaces of the line, the third is Empty
Threatens(board, line, mark) ==
    /\ Cardinality({l \in Range(line) : board[l] = mark}) = 2
    /\ \E l \in Range(line) : board[l] = "Empty"

\* the larger boards on which the other side is one move from completing
\* MiddleColumn and p is to move
BlockCalls ==
    {c \in Boards \X ActivePlayer :
        /\ EmptyCount(c[1]) > MaxEmpty
        /\ Threatens(c[1], MIDDLE_COLUMN, get_board_space(opposite(c[2])))
        /\ AlternatingPlay(c[1], c[2])}

InitCalls == SmallCalls \cup TopRowCalls \cup BlockCalls

\* the values handed to AiPlayer::new and set_difficulty
Difficulties == {F(-5), F(0), F(50), F(100), F(105), NaN}

\* the values rng.gen_range(0.0..1.0) returns
RDraws == {F(0), F(49), F(50), F(99)}

\* the largest number of calls of ActivePlayer::switch in a row
MaxSwitches == 2

\* the largest number of runs of game_loop in one run of main
MaxGames == 3

\* GameMode
GameMode == {"Classic", "Reverse"}

\* the largest game limit value reached by next_value from the initial 1,
\* and the largest distance below u32::MAX reached by prev_value
MaxLimit == 3

\* the selected game limit values the menu starts from: the one of new(),
\* and the one that is two presses of next_value below u32::MAX
LimitValues == {U32(0, 1), U32(Limb - 1, Limb - 3)}

\* every board, for either side
AllCalls == Boards \X ActivePlayer

\* the boards from which the recursion of PossibleMove::new is followed
RootCalls == InitCalls \cup ({GameBoard_new} \X ActivePlayer)

(***************************************************************************)
(* The state: a caller that owns a board and an AiPlayer, the record of    *)
(* the call it made, and the fields of the UI that plays games on the      *)
(* board.                                                                  *)
(***************************************************************************)
VARIABLES
    board,          \* the caller's GameBoard; UI.game_board
    active_player,  \* the side to move; UI.active_player
    difficulty,     \* AiPlayer.difficulty
    panicked,       \* TRUE once a call has panicked
    turn,           \* the call of do_turn that was made, with what it returned
    pmove,          \* the call of PossibleMove::new that was made, with its locals
    outcome,        \* what analyze_game returned; game_loop's game_outcome
    switched,       \* the sides on which switch() was called, in order
    frame,          \* the innermost activation of PossibleMove::new
    player_x,       \* UI.player_x
    player_o,       \* UI.player_o
    cursor_x_pos,   \* UI.cursor_x_pos
    cursor_y_pos,   \* UI.cursor_y_pos
    exit_flag,      \* UI.exit_flag
    game_mode,      \* UI.game_mode
    player_x_score, \* UI.player_x_score
    player_o_score, \* UI.player_o_score
    number_of_draws,\* UI.number_of_draws
    phase,          \* where the UI is: "Idle", "Running" (inside the loop
                    \* of game_loop), "Returned" (game_loop has returned)
                    \* or "Exited" (main has left its loop)
    menu,           \* the options of the setup menu
    pressed,        \* the call made on an option of the menu, with its result
    starter,        \* the side that was active when game_loop was entered
    previous,       \* the game before this one: its starter and its outcome
    ai_turns        \* what do_turn returned, call by call, in this game_loop

\* the fields of the UI other than game_board and active_player
ui_fields == <<player_x, player_o, cursor_x_pos, cursor_y_pos, exit_flag,
               game_mode, player_x_score, player_o_score, number_of_draws,
               phase>>

\* the records of the calls other than do_turn and PossibleMove::new
call_records == <<outcome, switched, frame>>

\* the setup menu and the call made on it
setup_fields == <<menu, pressed>>

\* the records of the games
game_records == <<starter, previous, ai_turns>>

vars == <<board, active_player, difficulty, panicked, turn, pmove,
          call_records, ui_fields, setup_fields, game_records>>

NoTurn == [kind |-> "None"]
NoProbe == [kind |-> "None"]
NoOutcome == [kind |-> "None", win_position |-> "None"]
NoFrame == [kind |-> "None"]
NoPress == [kind |-> "None"]
NoGame == [kind |-> "None"]

\* no call has been made yet
NoCalls ==
    /\ panicked = FALSE
    /\ turn = NoTurn
    /\ pmove = NoProbe
    /\ outcome = NoOutcome
    /\ switched = <<>>
    /\ frame = NoFrame
    /\ pressed = NoPress
    /\ starter = "None"
    /\ previous = NoGame
    /\ ai_turns = <<>>

\* UI::new(px, po), but for game_board and active_player; the scores start
\* at 0 and the mode is the one the setup menu selected
UI_new(px, po, mode) ==
    /\ player_x = px
    /\ player_o = po
    /\ cursor_x_pos = 0
    /\ cursor_y_pos = 0
    /\ exit_flag = FALSE
    /\ game_mode = mode
    /\ player_x_score = 0
    /\ player_o_score = 0
    /\ number_of_draws = 0
    /\ phase = "Idle"

Init ==
    /\ \E c \in InitCalls : board = c[1] /\ active_player = c[2]
    /\ difficulty = AiPlayer_default
    /\ NoCalls
    /\ UI_new(Human, Human, "Classic")
    /\ menu = SetupMenu_new

\* AiPlayer::set_difficulty(d) on the caller's player: a panic leaves the
\* assignment unreached
SetDifficulty(d) ==
    /\ ~panicked
    /\ turn = NoTurn
    /\ IF set_difficulty_panics(d)
       THEN panicked' = TRUE /\ UNCHANGED difficulty
       ELSE difficulty' = d /\ UNCHANGED panicked
    /\ UNCHANGED <<board, active_player, turn, pmove, call_records, ui_fields,
                   setup_fields, game_records>>

\* AiPlayer::new(d): set_difficulty(d) on AiPlayer::default(); the instance
\* replaces the caller's player unless set_difficulty panicked
New(d) ==
    /\ ~panicked
    /\ turn = NoTurn
    /\ IF set_difficulty_panics(d)
       THEN panicked' = TRUE /\ UNCHANGED difficulty
       ELSE difficulty' = d /\ UNCHANGED panicked
    /\ UNCHANGED <<board, active_player, turn, pmove, call_records, ui_fields,
                   setup_fields, game_records>>

\* ai_player.do_turn(&board, &active_player) with random draw r
DoTurn ==
    /\ ~panicked
    /\ turn = NoTurn
    /\ pmove = NoProbe
    /\ \E possible_moves \in {generate_possible_moves(board, active_player)},
          r \in RDraws :
            turn' = [kind |-> "Done",
                     board |-> board, player |-> active_player,
                     difficulty |-> difficulty, r |-> r,
                     res |-> do_turn(difficulty, board, active_player,
                                     possible_moves, r)]
    /\ UNCHANGED <<board, active_player, difficulty, panicked, pmove,
                   call_records, ui_fields,
                   setup_fields, game_records>>

Next ==
    \/ \E d \in Difficulties : SetDifficulty(d)
    \/ \E d \in Difficulties : New(d)
    \/ DoTurn

Spec == Init /\ [][Next]_vars

\* PossibleMove::new(&board, location, &active_player, &winning_player), as
\* do_turn and PossibleMove::new call it: on a board that is not finished and
\* on an Empty space
Evaluate(location, winning_player) ==
    /\ pmove = NoProbe
    /\ turn = NoTurn
    /\ ~game_finished(game_outcome(board))
    /\ space(board, location) = "Empty"
    /\ pmove' = [kind |-> "Done",
                 board |-> board, active_player |-> active_player,
                 winning_player |-> winning_player,
                 res |-> PossibleMove_eval(board, location, active_player,
                                           winning_player)]
    /\ UNCHANGED <<board, active_player, difficulty, panicked, turn,
                   call_records, ui_fields,
                   setup_fields, game_records>>

NextEval == \E l \in BoardSpaceLocation, w \in ActivePlayer : Evaluate(l, w)

SpecEval == Init /\ [][NextEval]_vars

\* the caller makes either call, with the default AiPlayer
NextCalls == NextEval \/ DoTurn

SpecCalls == Init /\ [][NextCalls]_vars

(***************************************************************************)
(* Calls on arbitrary boards: analyze_game, switch and do_turn.            *)
(***************************************************************************)
InitBoards ==
    /\ \E c \in AllCalls : board = c[1] /\ active_player = c[2]
    /\ difficulty = AiPlayer_default
    /\ NoCalls
    /\ UI_new(Human, Human, "Classic")
    /\ menu = SetupMenu_new

\* GameOutcome::analyze_game(&board)
Analyze ==
    /\ outcome = NoOutcome
    /\ turn = NoTurn
    /\ switched = <<>>
    /\ outcome' = analyze_game(board)
    /\ UNCHANGED <<board, active_player, difficulty, panicked, turn, pmove,
                   switched, frame, ui_fields,
                   setup_fields, game_records>>

\* active_player.switch()
Switch ==
    /\ Len(switched) < MaxSwitches
    /\ outcome = NoOutcome
    /\ turn = NoTurn
    /\ active_player' = switch(active_player)
    /\ switched' = Append(switched, active_player)
    /\ UNCHANGED <<board, difficulty, panicked, turn, pmove, outcome, frame,
                   ui_fields,
                   setup_fields, game_records>>

\* do_turn on the boards with at most MaxEmpty Empty spaces
DoTurnAnyBoard ==
    /\ EmptyCount(board) <= MaxEmpty
    /\ outcome = NoOutcome
    /\ switched = <<>>
    /\ DoTurn

NextBoards == Analyze \/ Switch \/ DoTurnAnyBoard

SpecBoards == InitBoards /\ [][NextBoards]_vars

(***************************************************************************)
(* The recursion of PossibleMove::new, one activation after the other      *)
(* along a chain of nested calls.                                          *)
(***************************************************************************)
InitRecursion ==
    /\ \E c \in RootCalls : board = c[1] /\ active_player = c[2]
    /\ difficulty = AiPlayer_default
    /\ NoCalls
    /\ UI_new(Human, Human, "Classic")
    /\ menu = SetupMenu_new

\* the outermost call, made on the caller's board as do_turn makes it: the
\* perspective is the side to move
Call(location) ==
    /\ frame = NoFrame
    /\ ~game_finished(game_outcome(board))
    /\ space(board, location) = "Empty"
    /\ frame' = [kind |-> "Call", depth |-> 1, caller_board |-> board,
                 call |-> PossibleMove_call(board, location, active_player,
                                            active_player)]
    /\ UNCHANGED <<board, active_player, difficulty, panicked, turn, pmove,
                   outcome, switched, ui_fields,
                   setup_fields, game_records>>

\* the innermost activation calls PossibleMove::new for location
Recurse(location) ==
    /\ frame # NoFrame
    /\ location \in recursive_calls(frame.call)
    /\ frame' = [kind |-> "Call", depth |-> frame.depth + 1,
                 caller_board |-> frame.call.board,
                 call |-> PossibleMove_call(frame.call.new_board, location,
                                            opposite(frame.call.active_player),
                                            frame.call.winning_player)]
    /\ UNCHANGED <<board, active_player, difficulty, panicked, turn, pmove,
                   outcome, switched, ui_fields,
                   setup_fields, game_records>>

NextRecursion ==
    \/ \E l \in BoardSpaceLocation : Call(l)
    \/ \E l \in BoardSpaceLocation : Recurse(l)

SpecRecursion == InitRecursion /\ [][NextRecursion]_vars

(***************************************************************************)
(* ui/game.rs and ui/event_handling.rs: one run of game_loop.              *)
(***************************************************************************)
\* UI::active_player_type
active_player_type == IF active_player = "PlayerX" THEN player_x ELSE player_o

\* the condition of the while loop of game_loop
loop_continues == ~(game_finished(outcome) \/ exit_flag)

\* the UI after UI::new(player_x, player_o) as main builds it for a classic
\* game: X is Human and moves first, O is an AiPlayer, here of difficulty 1.0
InitGame ==
    /\ board = GameBoard_new
    /\ active_player = "PlayerX"
    /\ difficulty = AiPlayer_default
    /\ NoCalls
    /\ UI_new(Human, AI(AiPlayer_default), "Classic")
    /\ menu = SetupMenu_new

\* a start of game_loop that makes PlayerX the active side
GameLoopStart_resetting ==
    /\ phase = "Idle"
    /\ cursor_x_pos' = 0
    /\ cursor_y_pos' = 0
    /\ board' = GameBoard_new
    /\ outcome' = game_outcome(board')
    /\ phase' = "Running"
    /\ active_player' = "PlayerX"
    /\ starter' = active_player'
    /\ ai_turns' = <<>>
    /\ UNCHANGED <<difficulty, panicked, turn, pmove, switched,
                   frame, player_x, player_o, exit_flag, game_mode,
                   player_x_score, player_o_score, number_of_draws,
                   setup_fields, previous>>

\* game_loop up to its while loop
GameLoopStart ==
    /\ phase = "Idle"
    /\ cursor_x_pos' = 0
    /\ cursor_y_pos' = 0
    /\ board' = GameBoard_new
    /\ outcome' = game_outcome(board')
    /\ phase' = "Running"
    /\ starter' = active_player
    /\ ai_turns' = <<>>
    /\ UNCHANGED <<active_player, difficulty, panicked, turn, pmove, switched,
                   frame, player_x, player_o, exit_flag, game_mode,
                   player_x_score, player_o_score, number_of_draws,
                   setup_fields, previous>>

\* a claim_space that writes the letter whatever the space holds
claim_space_overwriting(game_board, x, y, player) ==
    LET desired_location == from_coordinates(x, y)
    IN [returned |-> TRUE,
        game_board |-> space_mut(game_board, desired_location,
                                 IF player = "PlayerX" THEN "X" ELSE "O")]

\* UI::claim_space with the cursor at (x, y): what it returns and the board
\* it leaves
claim_space(game_board, x, y, player) ==
    LET desired_location == from_coordinates(x, y)
    IN IF space(game_board, desired_location) = "Empty"
       THEN [returned |-> TRUE,
             game_board |-> space_mut(game_board, desired_location,
                                      IF player = "PlayerX" THEN "X" ELSE "O")]
       ELSE [returned |-> FALSE, game_board |-> game_board]

\* an iteration of the loop for a Human on which both letters claim the
\* space, whichever side is active
HumanTurn_any_letter(key) ==
    /\ phase = "Running"
    /\ ~panicked
    /\ loop_continues
    /\ active_player_type = Human
    /\ LET attempts == key \in {"Enter", "x", "o"}
           claim == claim_space(board, cursor_x_pos, cursor_y_pos,
                                active_player)
           claimed == attempts /\ claim.returned
       IN /\ board' = IF attempts THEN claim.game_board ELSE board
          /\ active_player' = IF claimed THEN switch(active_player)
                              ELSE active_player
          /\ cursor_x_pos' =
                IF claimed THEN 0
                ELSE IF key = "Right" /\ cursor_x_pos < 2 THEN cursor_x_pos + 1
                ELSE IF key = "Left" /\ cursor_x_pos > 0 THEN cursor_x_pos - 1
                ELSE cursor_x_pos
          /\ cursor_y_pos' =
                IF claimed THEN 0
                ELSE IF key = "Down" /\ cursor_y_pos < 2 THEN cursor_y_pos + 1
                ELSE IF key = "Up" /\ cursor_y_pos > 0 THEN cursor_y_pos - 1
                ELSE cursor_y_pos
          /\ exit_flag' = (exit_flag \/ key \in {"q", "CtrlC"})
    /\ outcome' = game_outcome(board')
    /\ UNCHANGED <<difficulty, panicked, turn, pmove, switched, frame,
                   player_x, player_o, game_mode, player_x_score,
                   player_o_score, number_of_draws, phase, setup_fields,
                   game_records>>

\* an iteration of the loop for a Human: handle_next_event on the event key,
\* then the outcome is taken again
HumanTurn(key) ==
    /\ phase = "Running"
    /\ ~panicked
    /\ loop_continues
    /\ active_player_type = Human
    /\ LET \* the arms of handle_next_event that call claim_space
           attempts == \/ key = "Enter"
                       \/ key = "x" /\ active_player = "PlayerX"
                       \/ key = "o" /\ active_player = "PlayerO"
           claim == claim_space(board, cursor_x_pos, cursor_y_pos,
                                active_player)
           \* claim_space returned true
           claimed == attempts /\ claim.returned
       IN /\ board' = IF attempts THEN claim.game_board ELSE board
          \* switch_active_player
          /\ active_player' = IF claimed THEN switch(active_player)
                              ELSE active_player
          /\ cursor_x_pos' =
                IF claimed THEN 0
                ELSE IF key = "Right" /\ cursor_x_pos < 2 THEN cursor_x_pos + 1
                ELSE IF key = "Left" /\ cursor_x_pos > 0 THEN cursor_x_pos - 1
                ELSE cursor_x_pos
          /\ cursor_y_pos' =
                IF claimed THEN 0
                ELSE IF key = "Down" /\ cursor_y_pos < 2 THEN cursor_y_pos + 1
                ELSE IF key = "Up" /\ cursor_y_pos > 0 THEN cursor_y_pos - 1
                ELSE cursor_y_pos
          /\ exit_flag' = (exit_flag \/ key \in {"q", "CtrlC"})
    /\ outcome' = game_outcome(board')
    /\ UNCHANGED <<difficulty, panicked, turn, pmove, switched, frame,
                   player_x, player_o, game_mode, player_x_score,
                   player_o_score, number_of_draws, phase, setup_fields,
                   game_records>>

\* an iteration of the loop for an AI: do_turn with random draw r, then the
\* outcome is taken again
AiTurn ==
    /\ phase = "Running"
    /\ ~panicked
    /\ loop_continues
    /\ active_player_type.kind = "AI"
    /\ \E possible_moves \in {generate_possible_moves(board, active_player)},
          r \in RDraws :
         LET res == do_turn(active_player_type.difficulty, board, active_player,
                            possible_moves, r)
         IN /\ board' = IF res.kind = "Ok" THEN res.new_board ELSE board
            /\ active_player' = IF res.kind = "Ok" THEN switch(active_player)
                                ELSE active_player
            /\ cursor_x_pos' = IF res.kind = "Ok" THEN 0 ELSE cursor_x_pos
            /\ cursor_y_pos' = IF res.kind = "Ok" THEN 0 ELSE cursor_y_pos
            /\ panicked' = (res.kind = "Err" /\ res.error = "NoMovesFound")
            /\ ai_turns' = Append(ai_turns, IF res.kind = "Ok" THEN "Ok"
                                            ELSE res.error)
    /\ outcome' = game_outcome(board')
    /\ UNCHANGED <<difficulty, turn, pmove, switched, frame, player_x,
                   player_o, exit_flag, game_mode, player_x_score,
                   player_o_score, number_of_draws, phase, setup_fields,
                   starter, previous>>

\* an end of game_loop that credits the side whose line it is in either mode
GameLoopReturn_classic_only ==
    /\ phase = "Running"
    /\ ~panicked
    /\ ~loop_continues
    /\ player_x_score' =
          IF outcome.kind = "PlayerX" THEN player_x_score + 1 ELSE player_x_score
    /\ player_o_score' =
          IF outcome.kind = "PlayerO" THEN player_o_score + 1 ELSE player_o_score
    /\ number_of_draws' =
          IF outcome.kind = "Draw" THEN number_of_draws + 1 ELSE number_of_draws
    /\ phase' = "Returned"
    /\ UNCHANGED <<board, active_player, difficulty, panicked, turn, pmove,
                   call_records, player_x, player_o, cursor_x_pos,
                   cursor_y_pos, exit_flag, game_mode, setup_fields,
                   game_records>>

\* game_loop from the end of its while loop: the scores, and the return
GameLoopReturn ==
    /\ phase = "Running"
    /\ ~panicked
    /\ ~loop_continues
    /\ player_x_score' =
          IF \/ outcome.kind = "PlayerX" /\ game_mode = "Classic"
             \/ outcome.kind = "PlayerO" /\ game_mode = "Reverse"
          THEN player_x_score + 1 ELSE player_x_score
    /\ player_o_score' =
          IF \/ outcome.kind = "PlayerX" /\ game_mode = "Reverse"
             \/ outcome.kind = "PlayerO" /\ game_mode = "Classic"
          THEN player_o_score + 1 ELSE player_o_score
    /\ number_of_draws' =
          IF outcome.kind = "Draw" THEN number_of_draws + 1 ELSE number_of_draws
    /\ phase' = "Returned"
    /\ UNCHANGED <<board, active_player, difficulty, panicked, turn, pmove,
                   call_records, player_x, player_o, cursor_x_pos,
                   cursor_y_pos, exit_flag, game_mode, setup_fields,
                   game_records>>

NextGame ==
    \/ GameLoopStart
    \/ \E key \in Keys : HumanTurn(key)
    \/ AiTurn
    \/ GameLoopReturn

SpecGame == InitGame /\ [][NextGame]_vars

(***************************************************************************)
(* ui/game.rs: one run of game_loop for two Humans, in either game mode.   *)
(***************************************************************************)
InitHumans ==
    /\ board = GameBoard_new
    /\ active_player = "PlayerX"
    /\ difficulty = AiPlayer_default
    /\ NoCalls
    /\ \E mode \in GameMode : UI_new(Human, Human, mode)
    /\ menu = SetupMenu_new

NextHumans ==
    \/ GameLoopStart
    \/ \E key \in Keys : HumanTurn(key)
    \/ GameLoopReturn

SpecHumans == InitHumans /\ [][NextHumans]_vars

(***************************************************************************)
(* ui/game.rs: one run of game_loop for two AiPlayers of difficulty 0.5,   *)
(* each of which makes a mistake or not according to the random draw.      *)
(***************************************************************************)
InitAis ==
    /\ board = GameBoard_new
    /\ active_player = "PlayerX"
    /\ difficulty = AiPlayer_default
    /\ NoCalls
    /\ UI_new(AI(F(50)), AI(F(50)), "Classic")
    /\ menu = SetupMenu_new

NextAis ==
    \/ GameLoopStart
    \/ AiTurn
    \/ GameLoopReturn

SpecAis == InitAis /\ [][NextAis]_vars

(***************************************************************************)
(* main.rs: the loop of main around game_loop and play_again_menu, for two *)
(* Humans.                                                                 *)
(***************************************************************************)
\* UI::number_of_games
number_of_games == player_x_score + player_o_score + number_of_draws

InitMatch ==
    /\ board = GameBoard_new
    /\ active_player = "PlayerX"
    /\ difficulty = AiPlayer_default
    /\ NoCalls
    /\ UI_new(Human, Human, "Classic")
    /\ menu = SetupMenu_new

\* the loop of main once game_loop has returned game_outcome: it leaves the
\* loop on Incomplete, without calling play_again_menu, and when
\* play_again_menu returns false; otherwise the loser of a won game becomes
\* the active side and game_loop is called again
MainLoop(play_again) ==
    /\ phase = "Returned"
    /\ play_again => number_of_games < MaxGames
    /\ IF outcome.kind = "Incomplete" \/ ~play_again
       THEN /\ phase' = "Exited"
            /\ UNCHANGED <<active_player, previous>>
       ELSE /\ active_player' =
                  CASE outcome.kind = "PlayerX" -> "PlayerO"
                    [] outcome.kind = "PlayerO" -> "PlayerX"
                    [] OTHER -> active_player
            /\ previous' = [kind |-> "Game", starter |-> starter,
                            outcome |-> outcome.kind]
            /\ phase' = "Idle"
    /\ UNCHANGED <<board, difficulty, panicked, turn, pmove, call_records,
                   player_x, player_o, cursor_x_pos, cursor_y_pos, exit_flag,
                   game_mode, player_x_score, player_o_score, number_of_draws,
                   setup_fields, starter, ai_turns>>

\* the keys of the games that are played to their end with the cursor and
\* Enter: a game that is quit returns Incomplete, on which main leaves its
\* loop
PlayKeys == {"Right", "Left", "Down", "Up", "Enter"}

NextMatch ==
    \/ GameLoopStart
    \/ \E key \in PlayKeys : HumanTurn(key)
    \/ GameLoopReturn
    \/ \E play_again \in BOOLEAN : MainLoop(play_again)

SpecMatch == InitMatch /\ [][NextMatch]_vars

(***************************************************************************)
(* ui/setup_menu: presses of Right and Left on the options of the setup    *)
(* menu, and the AiPlayer built from the difficulty option.                *)
(***************************************************************************)
InitMenu ==
    /\ board = GameBoard_new
    /\ active_player = "PlayerX"
    /\ difficulty = AiPlayer_default
    /\ NoCalls
    /\ UI_new(Human, Human, "Classic")
    /\ \E v \in LimitValues : menu = [SetupMenu_new EXCEPT !.autoquit_value = v]

\* the option has not been consumed by value()
InMenu == pressed.kind # "value" /\ ~panicked

\* Right on the option: next_value, whose Result the menu loop drops
NextValue(option) ==
    /\ InMenu
    /\ option = "autoquit_value" /\ menu.autoquit_value.hi = 0
          => menu.autoquit_value.lo < MaxLimit
    /\ LET res == next_value(option, menu)
       IN /\ menu' = res.menu
          /\ pressed' = [kind |-> "next_value", option |-> option,
                         result |-> res.result, before |-> menu]
    /\ UNCHANGED <<board, active_player, difficulty, panicked, turn, pmove,
                   call_records, ui_fields, game_records>>

\* Left on the option: prev_value
PrevValue(option) ==
    /\ InMenu
    /\ option = "autoquit_value" /\ menu.autoquit_value.hi # 0
          => menu.autoquit_value.lo > Limb - 1 - MaxLimit
    /\ LET res == prev_value(option, menu)
       IN /\ menu' = res.menu
          /\ pressed' = [kind |-> "prev_value", option |-> option,
                         result |-> res.result, before |-> menu]
    /\ UNCHANGED <<board, active_player, difficulty, panicked, turn, pmove,
                   call_records, ui_fields, game_records>>

\* DifficultyMenuOption::value: AiPlayer::new on the selected difficulty; the
\* AiPlayer becomes the caller's player unless set_difficulty panicked
Value ==
    /\ InMenu
    /\ LET d == DifficultyMenuOption_value(menu)
       IN /\ IF set_difficulty_panics(d)
             THEN panicked' = TRUE /\ UNCHANGED difficulty
             ELSE difficulty' = d /\ UNCHANGED panicked
          /\ pressed' = [kind |-> "value", option |-> "difficulty",
                         result |-> IF set_difficulty_panics(d) THEN "Panic"
                                    ELSE "Ok",
                         before |-> menu]
    /\ UNCHANGED <<board, active_player, turn, pmove, call_records, ui_fields,
                   menu, game_records>>

NextMenu ==
    \/ \E option \in MenuOptions : NextValue(option)
    \/ \E option \in MenuOptions : PrevValue(option)
    \/ Value

SpecMenu == InitMenu /\ [][NextMenu]_vars

(***************************************************************************)
(* Vocabulary of the properties, stated on the cells of a board and        *)
(* independently of analyze_game.                                          *)
(***************************************************************************)
Lines == {Range(win_position_constants[w]) : w \in Range(WinPosition_all)}

\* some line holds three marks `mark`
HasLine(b, mark) == \E line \in Lines : \A l \in line : b[l] = mark

Full(b) == \A l \in BoardSpaceLocation : b[l] # "Empty"

InProgress(b) == ~HasLine(b, "X") /\ ~HasLine(b, "O") /\ ~Full(b)

EmptySpaces(b) == {l \in BoardSpaceLocation : b[l] = "Empty"}

Scores(moves) == {moves[i].win_score : i \in 1..Len(moves)}

RECURSIVE SumScores(_)
SumScores(moves) ==
    IF moves = <<>> THEN 0 ELSE Head(moves).win_score + SumScores(Tail(moves))

Probed == pmove.kind = "Done"

(***************************************************************************)
(* C1.  A move that ends the game at once scores exactly 1.0 when the      *)
(* resulting board is won by the perspective side, exactly -1.0 when it is *)
(* won by the other side, and exactly 0.0 when it fills the board without  *)
(* completing a line.                                                      *)
(***************************************************************************)
C1_TerminalScore ==
    Probed =>
        LET nb == pmove.res.new_board
            mine == get_board_space(pmove.winning_player)
            theirs == get_board_space(opposite(pmove.winning_player))
        IN /\ HasLine(nb, mine) => pmove.res.win_score = One
           /\ HasLine(nb, theirs) => pmove.res.win_score = -One
           /\ (Full(nb) /\ ~HasLine(nb, mine) /\ ~HasLine(nb, theirs))
                  => pmove.res.win_score = 0

\* a move of the side that is not the perspective side completes a line
C1_Witness ==
    /\ Probed
    /\ pmove.active_player # pmove.winning_player
    /\ HasLine(pmove.res.new_board, get_board_space(pmove.active_player))
    /\ pmove.res.win_score = -One

(***************************************************************************)
(* C2.  The score of a move whose resulting board is still in progress is  *)
(* 0.5 times the arithmetic mean of the scores of its sub-moves, which are *)
(* exactly one move per Empty cell of the resulting board, played by the   *)
(* opposite side and scored for the same perspective; a move with a single *)
(* continuation that scores 1.0 scores 0.5.                                *)
(***************************************************************************)
C2_HalfTheMean ==
    (Probed /\ InProgress(pmove.res.new_board)) =>
        LET nb == pmove.res.new_board
            subs == pmove.res.sub_moves
            n == Len(subs)
        IN /\ n = Cardinality(EmptySpaces(nb))
           /\ {subs[i].new_location : i \in 1..n} = EmptySpaces(nb)
           /\ \A i \in 1..n :
                subs[i] = PossibleMove_new(nb, subs[i].new_location,
                                           opposite(pmove.active_player),
                                           pmove.winning_player)
           \* score = 0.5 * (sum / n), in exact arithmetic
           /\ 2 * n * pmove.res.win_score = SumScores(subs)
           /\ (n = 1 /\ subs[1].win_score = One) => 2 * pmove.res.win_score = One

\* a single continuation that scores 1.0
C2_Witness ==
    /\ Probed
    /\ InProgress(pmove.res.new_board)
    /\ Len(pmove.res.sub_moves) = 1
    /\ pmove.res.sub_moves[1].win_score = One
    /\ 2 * pmove.res.win_score = One

(***************************************************************************)
(* C3.  Every win score the evaluator produces, at the level of the call   *)
(* and at the level below it, lies in [-1.0, 1.0].                         *)
(***************************************************************************)
C3_ScoreRange ==
    Probed =>
        \A s \in {pmove.res.win_score} \cup Scores(pmove.res.sub_moves) :
            -One <= s /\ s <= One

\* a score computed from several sub-moves, one of which reaches the bound
C3_Witness ==
    /\ Probed
    /\ Len(pmove.res.sub_moves) >= 2
    /\ One \in Scores(pmove.res.sub_moves)
    /\ 0 < pmove.res.win_score /\ pmove.res.win_score < One

Played == turn.kind = "Done"

PlayedOk == Played /\ turn.res.kind = "Ok"

\* the board after side p has marked location l
After(b, l, p) == [b EXCEPT ![l] = get_board_space(p)]

\* the Empty spaces on which side p completes a line at once
WinningSpaces(b, p) ==
    {l \in EmptySpaces(b) : HasLine(After(b, l, p), get_board_space(p))}

\* the Empty spaces on which side p ends the game at once
EndingSpaces(b, p) == {l \in EmptySpaces(b) : ~InProgress(After(b, l, p))}

(***************************************************************************)
(* C4.  When the side to act can complete a line at once, every such move  *)
(* scores exactly 1.0 and strictly more than every move that does not win  *)
(* at once, and do_turn at difficulty 1.0 plays a winning cell; on the     *)
(* board with two TopRow cells held by the side and all else Empty, that   *)
(* is the third TopRow cell.                                               *)
(***************************************************************************)
C4_ImmediateWin ==
    (PlayedOk /\ WinningSpaces(turn.board, turn.player) # {}) =>
        LET b == turn.board
            p == turn.player
            moves == turn.res.possible_moves
            winning == WinningSpaces(b, p)
            played == turn.res.next_move.new_location
        IN /\ winning \subseteq {moves[i].new_location : i \in 1..Len(moves)}
           /\ \A i \in 1..Len(moves) :
                moves[i].new_location \in winning => moves[i].win_score = One
           /\ \A i, j \in 1..Len(moves) :
                (moves[i].new_location \in winning /\ moves[j].new_location \notin winning)
                    => moves[j].win_score < moves[i].win_score
           /\ turn.difficulty = F(100) =>
                /\ played \in winning
                /\ turn.res.new_board = After(b, played, p)
                /\ <<b, p>> \in TopRowCalls =>
                     Range(TOP_ROW) = {l \in BoardSpaceLocation : turn.res.new_board[l] # "Empty"}

\* do_turn at difficulty 1.0 completes TopRow on a TopRow scenario board
C4_Witness ==
    /\ PlayedOk
    /\ <<turn.board, turn.player>> \in TopRowCalls
    /\ turn.difficulty = F(100)
    /\ turn.res.next_move.new_location \in Range(TOP_ROW)
    /\ turn.res.next_move.win_score = One
    /\ HasLine(turn.res.new_board, get_board_space(turn.player))

(***************************************************************************)
(* C5.  On a board of alternating play where the other side holds two      *)
(* cells of MiddleColumn, the third is Empty, and no move of the side to   *)
(* act ends the game at once, the blocking move scores strictly more than  *)
(* every non-blocking move.                                                *)
(***************************************************************************)
BlockCase ==
    /\ PlayedOk
    /\ Threatens(turn.board, MIDDLE_COLUMN, get_board_space(opposite(turn.player)))
    /\ AlternatingPlay(turn.board, turn.player)
    /\ EndingSpaces(turn.board, turn.player) = {}

C5_BlockScoresHighest ==
    BlockCase =>
        LET moves == turn.res.possible_moves
            blocking == EmptySpaces(turn.board) \cap Range(MIDDLE_COLUMN)
        IN \A i, j \in 1..Len(moves) :
             (moves[i].new_location \in blocking /\ moves[j].new_location \notin blocking)
                 => moves[j].win_score < moves[i].win_score

\* the lines, other than `line`, on which `mark` holds two cells and the
\* third is Empty
OtherThreats(b, line, mark) ==
    {w \in Range(WinPosition_all) :
        /\ win_position_constants[w] # line
        /\ Threatens(b, win_position_constants[w], mark)}

SingleThreatCase ==
    /\ BlockCase
    /\ OtherThreats(turn.board, MIDDLE_COLUMN,
                    get_board_space(opposite(turn.player))) = {}

\* C5 as amended: when MiddleColumn is moreover the only line on which the
\* other side holds two cells with the third Empty, the blocking move scores
\* strictly more than every non-blocking move.
C5_SingleThreatBlock ==
    SingleThreatCase =>
        LET moves == turn.res.possible_moves
            blocking == EmptySpaces(turn.board) \cap Range(MIDDLE_COLUMN)
        IN \A i, j \in 1..Len(moves) :
             (moves[i].new_location \in blocking /\ moves[j].new_location \notin blocking)
                 => moves[j].win_score < moves[i].win_score

\* a single threat on a board with six Empty cells
C5_Witness ==
    /\ SingleThreatCase
    /\ Len(turn.res.possible_moves) = 6
    /\ turn.res.possible_moves[6].new_location \in Range(MIDDLE_COLUMN)

(***************************************************************************)
(* C6.  At difficulty 1.0 do_turn plays a cell whose win score is maximal  *)
(* among the candidates, whatever the random draw.                         *)
(***************************************************************************)
C6_OptimalAtFullDifficulty ==
    (PlayedOk /\ turn.difficulty = F(100)) =>
        LET moves == turn.res.possible_moves
            played == turn.res.next_move
        IN /\ \E i \in 1..Len(moves) : moves[i] = played
           /\ \A i \in 1..Len(moves) : moves[i].win_score <= played.win_score
           /\ turn.res.new_board = After(turn.board, played.new_location, turn.player)
           /\ \A r \in RDraws :
                select_and_play(turn.difficulty, turn.board, turn.player, moves, r)
                    = turn.res

\* the draw 0.0 at difficulty 1.0, on a board whose moves differ in score
C6_Witness ==
    /\ PlayedOk
    /\ turn.difficulty = F(100)
    /\ turn.r = F(0)
    /\ Cardinality(Scores(turn.res.possible_moves)) >= 3
    /\ \A s \in Scores(turn.res.possible_moves) : s <= turn.res.next_move.win_score

(***************************************************************************)
(* C7.  new and set_difficulty reject every difficulty that is <= 0.0,     *)
(* > 1.0 or NaN, so the stored difficulty is always inside (0.0, 1.0].     *)
(***************************************************************************)
C7_DifficultyInRange ==
    /\ ~difficulty.nan
    /\ 0 < difficulty.v
    /\ difficulty.v <= 100

(***************************************************************************)
(* C8.  do_turn on a board that is won or drawn returns Err(GameFinished), *)
(* produces no board and leaves the input board as it was.                 *)
(***************************************************************************)
C8_FinishedBoardRejected ==
    (Played /\ ~InProgress(turn.board)) =>
        /\ turn.res.kind = "Err"
        /\ turn.res.error = "GameFinished"
        /\ turn.res.new_board = <<>>
        /\ board = turn.board

\* a won board that still has Empty cells, at a difficulty below 1.0
C8_Witness ==
    /\ Played
    /\ HasLine(turn.board, "X")
    /\ EmptySpaces(turn.board) # {}
    /\ turn.difficulty = F(50)
    /\ turn.res.error = "GameFinished"

(***************************************************************************)
(* C9.  When do_turn returns Ok(new_board), new_board differs from the     *)
(* input board in exactly one cell, which was Empty and now holds the      *)
(* active side's mark; the input board is unchanged.                       *)
(***************************************************************************)
C9_ExactlyOneCellPlayed ==
    PlayedOk =>
        LET changed == {l \in BoardSpaceLocation : turn.res.new_board[l] # turn.board[l]}
        IN /\ Cardinality(changed) = 1
           /\ \A l \in changed :
                /\ turn.board[l] = "Empty"
                /\ turn.res.new_board[l] = get_board_space(turn.player)
           /\ board = turn.board

\* a mistaken move on a board with several Empty cells
C9_Witness ==
    /\ PlayedOk
    /\ turn.res.do_mistake
    /\ Cardinality(EmptySpaces(turn.board)) >= 3
    /\ Cardinality(EmptySpaces(turn.res.new_board)) = Cardinality(EmptySpaces(turn.board)) - 1

(***************************************************************************)
(* C10.  At every level of evaluation the candidate list holds exactly one *)
(* move per Empty cell of the board being evaluated and none on any other  *)
(* cell: its length is the number of Empty cells and no position repeats.  *)
(***************************************************************************)
OneMovePerEmptySpace(moves, b) ==
    /\ Len(moves) = Cardinality(EmptySpaces(b))
    /\ {moves[i].new_location : i \in 1..Len(moves)} = EmptySpaces(b)

C10_OneMovePerEmptyCell ==
    /\ PlayedOk => OneMovePerEmptySpace(turn.res.possible_moves, turn.board)
    /\ (Probed /\ InProgress(pmove.res.new_board)) =>
           OneMovePerEmptySpace(pmove.res.sub_moves, pmove.res.new_board)

\* the list of a level below the top, with the first location Empty
C10_Witness ==
    /\ Probed
    /\ InProgress(pmove.res.new_board)
    /\ pmove.res.new_board[TopLeft] = "Empty"
    /\ Len(pmove.res.sub_moves) >= 3

Analyzed == outcome # NoOutcome

\* the full board X O X / X O O / O X X
KnownDraw ==
    [l \in BoardSpaceLocation |->
        <<"X", "O", "X", "X", "O", "O", "O", "X", "X">>[l]]

(***************************************************************************)
(* C11.  analyze_game reports a win exactly when some line holds three     *)
(* equal marks of X or of O, Draw exactly when no line is complete and no  *)
(* cell is Empty, and Incomplete exactly when no line is complete and some *)
(* cell is Empty; the board X O X / X O O / O X X is a Draw.               *)
(***************************************************************************)
C11_Classification ==
    Analyzed =>
        LET won == HasLine(board, "X") \/ HasLine(board, "O")
        IN /\ outcome.kind \in {"PlayerX", "PlayerO", "Draw", "Incomplete"}
           /\ outcome.kind \in {"PlayerX", "PlayerO"} <=> won
           /\ outcome.kind = "Draw" <=> (~won /\ Full(board))
           /\ outcome.kind = "Incomplete" <=> (~won /\ ~Full(board))
           /\ board = KnownDraw => outcome.kind = "Draw"

\* the known draw pattern has been classified
C11_Witness ==
    /\ Analyzed
    /\ board = KnownDraw
    /\ outcome.kind = "Draw"

(***************************************************************************)
(* C12.  do_turn never returns Err(NoMovesFound), on any board and for     *)
(* either side: a board that analyze_game calls Incomplete has an Empty    *)
(* cell, and do_turn on a board in progress returns Ok.                    *)
(***************************************************************************)
C12_NeverNoMovesFound ==
    /\ (Analyzed /\ outcome.kind = "Incomplete") => EmptySpaces(board) # {}
    /\ Played => ~(turn.res.kind = "Err" /\ turn.res.error = "NoMovesFound")
    /\ (Played /\ InProgress(turn.board)) =>
           /\ turn.res.kind = "Ok"
           /\ Len(turn.res.possible_moves) >= 1

\* do_turn has passed the GameFinished check on a board that no alternating
\* play produces
C12_Witness ==
    /\ PlayedOk
    /\ ~Balanced(turn.board)
    /\ Cardinality(EmptySpaces(turn.board)) = 1

\* the moves are in ascending order of win score
Ascending(moves) ==
    \A i, j \in 1..Len(moves) : i < j => moves[i].win_score <= moves[j].win_score

(***************************************************************************)
(* C13.  When do_turn makes a mistake it plays the candidate at index      *)
(* floor(difficulty * count) of the list sorted ascending by win score, or *)
(* the first candidate if that index is past the end; otherwise it plays   *)
(* the last candidate of the list.                                         *)
(***************************************************************************)
C13_MoveSelection ==
    PlayedOk =>
        LET moves == turn.res.possible_moves
            n == Len(moves)
            \* difficulties are hundredths
            index == (turn.difficulty.v * n) \div 100
        IN /\ Ascending(moves)
           /\ turn.res.next_move =
                IF turn.res.do_mistake
                THEN IF index < n THEN moves[index + 1] ELSE moves[1]
                ELSE moves[n]

\* a mistake that plays neither the first nor the last candidate
C13_Witness ==
    /\ PlayedOk
    /\ turn.res.do_mistake
    /\ turn.difficulty = F(50)
    /\ Len(turn.res.possible_moves) = 3
    /\ turn.res.next_move = turn.res.possible_moves[2]
    /\ Cardinality(Scores(turn.res.possible_moves)) = 3

(***************************************************************************)
(* C14.  mistake_chance() is 1 - difficulty and lies in [0.0, 1.0] for     *)
(* every stored difficulty, 0.0 at difficulty 1.0, and do_turn makes a     *)
(* mistake exactly when mistake_chance() is strictly greater than the      *)
(* random draw.                                                            *)
(***************************************************************************)
C14_MistakeChance ==
    /\ LET chance == mistake_chance(difficulty)
       IN /\ ~chance.nan
          /\ chance.v = 100 - difficulty.v
          /\ 0 <= chance.v /\ chance.v <= 100
          /\ difficulty = F(100) => chance.v = 0
    /\ PlayedOk =>
          (turn.res.do_mistake <=> (100 - turn.difficulty.v > turn.r.v))

\* the draw equals the mistake chance: no mistake
C14_Witness ==
    /\ PlayedOk
    /\ turn.difficulty = F(50)
    /\ turn.r = F(50)
    /\ ~turn.res.do_mistake

(***************************************************************************)
(* C15.  Every recursive call of PossibleMove::new works on a board with   *)
(* exactly one Empty cell fewer than its caller's board, the depth of the  *)
(* recursion never exceeds the number of Empty cells of the root board (at *)
(* most 9), and a call that makes no recursive call has a finished         *)
(* resulting board.                                                        *)
(***************************************************************************)
C15_RecursionTerminates ==
    frame # NoFrame =>
        /\ frame.depth > 1 =>
              EmptyCount(frame.call.board) = EmptyCount(frame.caller_board) - 1
        /\ EmptyCount(frame.call.new_board) = EmptyCount(frame.call.board) - 1
        /\ frame.depth <= EmptyCount(board)
        /\ frame.depth <= 9
        /\ recursive_calls(frame.call) = {} => ~InProgress(frame.call.new_board)

\* the recursion has gone from the empty board to a full one
C15_Witness ==
    /\ frame # NoFrame
    /\ board = GameBoard_new
    /\ frame.depth = 9
    /\ recursive_calls(frame.call) = {}
    /\ Full(frame.call.new_board)

(***************************************************************************)
(* C16.  The candidates of do_turn are ordered ascending by win score,     *)
(* candidates of equal score in the enumeration order of their cells, so   *)
(* the list is fixed by the scores; when no mistake occurs the cell played *)
(* is the last-enumerated cell among those of maximal score.               *)
(***************************************************************************)
C16_StableOrder ==
    PlayedOk =>
        LET moves == turn.res.possible_moves
            n == Len(moves)
            best == {l \in EmptySpaces(turn.board) :
                        \E i \in 1..n :
                            /\ moves[i].new_location = l
                            /\ \A j \in 1..n : moves[j].win_score <= moves[i].win_score}
        IN /\ \A i, j \in 1..n :
                i < j => \/ moves[i].win_score < moves[j].win_score
                         \/ /\ moves[i].win_score = moves[j].win_score
                            /\ moves[i].new_location < moves[j].new_location
           /\ ~turn.res.do_mistake =>
                /\ turn.res.next_move.new_location \in best
                /\ \A l \in best : l <= turn.res.next_move.new_location

\* several cells share the maximal score and no mistake occurs
C16_Witness ==
    /\ PlayedOk
    /\ ~turn.res.do_mistake
    /\ Len(turn.res.possible_moves) >= 3
    /\ LET moves == turn.res.possible_moves
           n == Len(moves)
       IN /\ moves[n - 1].win_score = moves[n].win_score
          /\ moves[1].win_score < moves[n].win_score
          /\ turn.res.next_move.new_location = moves[n].new_location

\* the win positions in the order TopRow, MiddleRow, BottomRow, LeftColumn,
\* MiddleColumn, RightColumn, TopLeftToBottomRight, BottomLeftToTopRight
PriorityOrder ==
    <<"TopRow", "MiddleRow", "BottomRow", "LeftColumn", "MiddleColumn",
      "RightColumn", "TopLeftToBottomRight", "BottomLeftToTopRight">>

\* the cells of the i-th win position of that order
PriorityCells(i) == Range(win_position_constants[PriorityOrder[i]])

\* the positions, in that order, of the lines that X or O has completed
CompletedLines(b) ==
    {i \in 1..Len(PriorityOrder) :
        \E mark \in {"X", "O"} : \A l \in PriorityCells(i) : b[l] = mark}

(***************************************************************************)
(* C17.  When several lines are complete, analyze_game reports the one     *)
(* that comes first in the order of the win positions and names the side   *)
(* holding that line as winner, also when the lines belong to different    *)
(* sides; a line of three Empty cells is never reported.                   *)
(***************************************************************************)
C17_FirstLineWins ==
    /\ (Analyzed /\ CompletedLines(board) # {}) =>
          LET first == CHOOSE i \in CompletedLines(board) :
                          \A j \in CompletedLines(board) : i <= j
          IN /\ outcome.win_position = PriorityOrder[first]
             /\ outcome.kind =
                   IF \A l \in PriorityCells(first) : board[l] = "X"
                   THEN "PlayerX" ELSE "PlayerO"
    /\ (Analyzed /\ outcome.win_position # "None") =>
          \A l \in Range(win_position_constants[outcome.win_position]) :
              board[l] # "Empty"

\* TopRow is Empty, MiddleRow belongs to O and BottomRow to X
C17_Witness ==
    /\ Analyzed
    /\ \A l \in Range(TOP_ROW) : board[l] = "Empty"
    /\ \A l \in Range(MIDDLE_ROW) : board[l] = "O"
    /\ \A l \in Range(BOTTOM_ROW) : board[l] = "X"
    /\ outcome.kind = "PlayerO"
    /\ outcome.win_position = "MiddleRow"

(***************************************************************************)
(* C18.  opposite is total and involutive: the opposite of a side is the   *)
(* other side and the opposite of that is the side again, two calls of     *)
(* switch() restore the side, and the two sides have different marks,      *)
(* neither of them Empty.                                                  *)
(***************************************************************************)
C18_OppositeInvolutive ==
    LET \* the side after the i-th call of switch
        after(i) == IF i < Len(switched) THEN switched[i + 1] ELSE active_player
    IN /\ \A s \in ActivePlayer :
            /\ opposite(s) \in ActivePlayer
            /\ opposite(s) # s
            /\ opposite(opposite(s)) = s
            /\ get_board_space(s) \in {"X", "O"}
            /\ get_board_space(s) # get_board_space(opposite(s))
       /\ \A i \in 1..Len(switched) :
            /\ after(i) \in ActivePlayer \ {switched[i]}
            /\ i >= 2 => after(i) = switched[i - 1]

\* switch() has been called twice
C18_Witness ==
    /\ Len(switched) = 2
    /\ switched[1] = "PlayerO"
    /\ switched[2] = "PlayerX"
    /\ active_player = "PlayerO"

(***************************************************************************)
(* C19.  A classic game from the empty board between an AiPlayer of        *)
(* difficulty 1.0 and a side that plays any legal moves never ends with a  *)
(* win for that other side.                                                *)
(***************************************************************************)
C19_AiNeverLoses ==
    /\ outcome.kind = "PlayerX" => player_x.kind = "AI"
    /\ outcome.kind = "PlayerO" => player_o.kind = "AI"

(***************************************************************************)
(* C20.  For every accepted difficulty below 1.0 and every candidate count *)
(* from 2 to 9, floor(difficulty * count) is strictly less than count - 1: *)
(* a mistake never plays the last candidate of the sorted list unless it   *)
(* is the only one.                                                        *)
(***************************************************************************)
C20_MistakeNeverLast ==
    (PlayedOk /\ turn.difficulty.v < 100 /\ Len(turn.res.possible_moves) >= 2) =>
        LET moves == turn.res.possible_moves
            n == Len(moves)
        IN /\ (turn.difficulty.v * n) \div 100 < n - 1
           /\ turn.res.do_mistake => turn.res.next_move # moves[n]

(***************************************************************************)
(* C21.  No sequence of next_value and prev_value calls on the difficulty  *)
(* option, which starts at 85 and moves in steps of 5, leads to a          *)
(* selection from which value() builds an AiPlayer whose difficulty is     *)
(* outside (0.0, 1.0].                                                     *)
(***************************************************************************)
C21_MenuDifficultyValid ==
    pressed.kind = "value" =>
        /\ pressed.result = "Ok"
        /\ f_gt(difficulty, F(0))
        /\ ~f_gt(difficulty, F(100))

(***************************************************************************)
(* C28.  On every option of the setup menu, in every state the calls of    *)
(* next_value and prev_value reach, next_value returns Err exactly when    *)
(* at_maximum() was true, prev_value returns Err exactly when at_minimum() *)
(* was true, and a call that returns Err leaves the selected values as     *)
(* they were; the game limit value is never below 1, an Ok next_value      *)
(* makes it larger and an Ok prev_value makes it smaller.                  *)
(***************************************************************************)
C28_ErrAtTheEnds ==
    /\ u32_gt(menu.autoquit_value, U32(0, 0))
    /\ pressed.kind = "next_value" =>
          /\ pressed.result = "Err" <=> at_maximum(pressed.option, pressed.before)
          /\ pressed.option = "autoquit_value" /\ pressed.result = "Ok" =>
                u32_gt(menu.autoquit_value, pressed.before.autoquit_value)
    /\ pressed.kind = "prev_value" =>
          /\ pressed.result = "Err" <=> at_minimum(pressed.option, pressed.before)
          /\ pressed.option = "autoquit_value" /\ pressed.result = "Ok" =>
                u32_gt(pressed.before.autoquit_value, menu.autoquit_value)
    /\ pressed.kind \in {"next_value", "prev_value"} /\ pressed.result = "Err" =>
          menu = pressed.before

\* prev_value was refused on the game limit value 1
C28_Witness ==
    /\ pressed.kind = "prev_value"
    /\ pressed.option = "autoquit_value"
    /\ pressed.result = "Err"
    /\ pressed.before.autoquit_value = U32(0, 1)
    /\ menu.autoquit_value = U32(0, 1)

(***************************************************************************)
(* C29.  Exchanging the perspective negates the win score: for every board *)
(* in progress, Empty cell and side to act, the score PossibleMove::new    *)
(* computes for PlayerX as winning_player is the negation of the score it  *)
(* computes for PlayerO.                                                   *)
(***************************************************************************)
C29_PerspectiveNegates ==
    Probed =>
        PossibleMove_new(pmove.board, pmove.res.new_location,
                         pmove.active_player,
                         opposite(pmove.winning_player)).win_score
            = -pmove.res.win_score

\* a score strictly between 0.0 and 1.0, averaged over several sub-moves and
\* taken from the perspective of the side that does not move
C29_Witness ==
    /\ Probed
    /\ pmove.winning_player # pmove.active_player
    /\ Len(pmove.res.sub_moves) >= 2
    /\ 0 < pmove.res.win_score /\ pmove.res.win_score < One
    /\ PossibleMove_new(pmove.board, pmove.res.new_location,
                        pmove.active_player, pmove.active_player).win_score < 0

(***************************************************************************)
(* C30.  Whenever do_turn makes a mistake, floor(difficulty * count) is    *)
(* below the number of candidates, so the move played is the candidate at  *)
(* that index and the fallback to the first candidate is not taken; a      *)
(* mistake happens only at a difficulty below 1.0.                         *)
(***************************************************************************)
C30_MistakeIndexInBounds ==
    PlayedOk /\ turn.res.do_mistake =>
        LET count == Len(turn.res.possible_moves)
            \* difficulties are hundredths
            floor == (turn.difficulty.v * count) \div 100
        IN /\ turn.difficulty.v < 100
           /\ floor < count
           /\ floor * 100 <= turn.difficulty.v * count
           /\ turn.res.next_move = turn.res.possible_moves[floor + 1]

\* a mistake at difficulty 0.5 with a single candidate: the index is 0
C30_Witness ==
    /\ PlayedOk
    /\ turn.res.do_mistake
    /\ turn.difficulty = F(50)
    /\ Len(turn.res.possible_moves) = 1
    /\ turn.res.next_move = turn.res.possible_moves[1]

\* the number of spaces of the board that hold a letter
Marks(b) == 9 - EmptyCount(b)

\* the space under the cursor, by its row and column
UnderCursor == board[3 * cursor_y_pos + cursor_x_pos + 1]

\* both states of the step are inside the while loop of one game_loop
InsideLoop == phase = "Running" /\ phase' = "Running"

(***************************************************************************)
(* C22.  Inside one game a space that holds a letter is never overwritten  *)
(* or cleared: from one iteration of the loop to the next every letter     *)
(* stays, the number of letters never decreases, and a successful turn (a  *)
(* claim that switches the side, a do_turn that returns Ok) adds exactly   *)
(* one letter.                                                             *)
(***************************************************************************)
C22_MarksStay ==
    [][InsideLoop =>
          /\ \A l \in BoardSpaceLocation :
                board[l] # "Empty" => board'[l] = board[l]
          /\ Marks(board') \in {Marks(board), Marks(board) + 1}
          /\ active_player' # active_player => Marks(board') = Marks(board) + 1
          /\ ai_turns' # ai_turns /\ ai_turns'[Len(ai_turns')] = "Ok" =>
                Marks(board') = Marks(board) + 1]_vars

\* the Human and the AI have both placed letters, and the cursor is on one
C22_Witness ==
    /\ phase = "Running"
    /\ Count(board, "X") = 2
    /\ Count(board, "O") = 2
    /\ ai_turns = <<"Ok", "Ok">>
    /\ UnderCursor # "Empty"

(***************************************************************************)
(* C23.  Inside one run of game_loop the active side changes exactly when  *)
(* a letter is placed, the letter is that of the side that was active, and *)
(* so the numbers of X and of O on the board differ by at most one in      *)
(* every state.                                                            *)
(***************************************************************************)
C23_TurnsAlternate ==
    /\ [](Count(board, "X") - Count(board, "O") \in {-1, 0, 1})
    /\ [][InsideLoop =>
             /\ active_player' # active_player <=> board' # board
             /\ board' # board =>
                   \E l \in BoardSpaceLocation :
                      /\ board[l] = "Empty"
                      /\ board' = [board EXCEPT ![l] =
                            IF active_player = "PlayerX" THEN "X" ELSE "O"]]_vars

\* after X, O and X have moved it is O's turn
C23_Witness ==
    /\ phase = "Running"
    /\ Count(board, "X") = 2
    /\ Count(board, "O") = 1
    /\ active_player = "PlayerO"
    /\ ai_turns = <<"Ok">>

\* the key asks for a space that holds a letter, or is the letter of the
\* side that is not active
Rejected(key) ==
    \/ key = "Enter" /\ UnderCursor # "Empty"
    \/ key = "x" /\ active_player = "PlayerX" /\ UnderCursor # "Empty"
    \/ key = "o" /\ active_player = "PlayerO" /\ UnderCursor # "Empty"
    \/ key = "x" /\ active_player = "PlayerO"
    \/ key = "o" /\ active_player = "PlayerX"

Credit(b, mode) ==
    IF HasLine(b, "X")
    THEN IF mode = "Classic" THEN <<1, 0, 0>> ELSE <<0, 1, 0>>
    ELSE IF HasLine(b, "O")
    THEN IF mode = "Classic" THEN <<0, 1, 0>> ELSE <<1, 0, 0>>
    ELSE IF Full(b) THEN <<0, 0, 1>>
    ELSE <<0, 0, 0>>

(***************************************************************************)
(* C26.  When game_loop ends, exactly one of player_x_score,               *)
(* player_o_score and number_of_draws has grown by 1 if the game finished, *)
(* and none if it was quit while Incomplete: a line of X credits X in      *)
(* Classic and O in Reverse, a line of O credits O in Classic and X in     *)
(* Reverse, a Draw adds 1 to number_of_draws.  Before game_loop ends no    *)
(* score has changed.                                                      *)
(***************************************************************************)
C26_ScoreCredited ==
    <<player_x_score, player_o_score, number_of_draws>> =
        IF phase = "Returned" THEN Credit(board, game_mode) ELSE <<0, 0, 0>>

\* a Reverse game in which O completed a line: X is credited
C26_Witness ==
    /\ phase = "Returned"
    /\ game_mode = "Reverse"
    /\ HasLine(board, "O")
    /\ ~exit_flag
    /\ <<player_x_score, player_o_score, number_of_draws>> = <<1, 0, 0>>

\* the side that moves first after the game `game`
NextStarter(game) ==
    CASE game.outcome = "PlayerX" -> "PlayerO"
      [] game.outcome = "PlayerO" -> "PlayerX"
      [] game.outcome = "Draw" ->
            IF game.starter = "PlayerX" THEN "PlayerO" ELSE "PlayerX"

C25_AiGameEnds ==
    /\ ~panicked
    /\ ~exit_flag
    /\ \A i \in 1..Len(ai_turns) : ai_turns[i] = "Ok"
    /\ phase # "Idle" => Len(ai_turns) = Marks(board)
    /\ Len(ai_turns) <= 9
    /\ Len(ai_turns) = 9 => game_finished(outcome) /\ ~loop_continues
    /\ phase = "Returned" => ~InProgress(board) /\ outcome.kind # "Incomplete"

\* a game of nine iterations that ended in a Draw, and has returned
C25_Witness ==
    /\ phase = "Returned"
    /\ Len(ai_turns) = 9
    /\ Full(board)
    /\ outcome.kind = "Draw"
    /\ number_of_draws = 1

====
